---- MODULE Spec2Model ----
(***************************************************************************)
(* saferider front end: App (src/saferider-FE/src/App.tsx, the variant of  *)
(* lines 138-321 with search and paging) and MapView                       *)
(* (src/saferider-FE/src/components/MapView.tsx).                          *)
(*                                                                         *)
(* React is modelled by its commit cycle.  An event handler or an          *)
(* asynchronous continuation updates hook state and the component tree is  *)
(* rendered and committed (derived values such as filteredAll are          *)
(* operators over the hook state); effectsPending then says that the       *)
(* passive effects of that commit have not run yet.  FlushEffects runs     *)
(* them in React's order (child before parent, declaration order inside a  *)
(* component), batches their state updates and commits the next render.    *)
(* Strings are sequences of one-character strings.  Coordinates are in     *)
(* tenths of a degree.  A Person object is held as its row number in the   *)
(* endpoint's table (Person gives the record); null is row 0.              *)
(***************************************************************************)
EXTENDS Integers, Sequences, FiniteSets, TLC

\* ------------------------------------------------------------------ bounds
\* Largest person array the endpoint answers with.
MaxPeople == 11
\* Longest camera list given to CCTVPage.
MaxCameras == 3
\* Longest vehicle list given to NearbyVehicles.
MaxVehicles == 3

\* ------------------------------------------------------- program constants
pageSize == 5
\* React invokes a mount effect once, or twice under StrictMode (which the
\* inited ref guards against).
StrictModeRuns == 2
DefaultLat == 365
DefaultLng == 1278
MapLevel == 7
BoundsPadding == 50
zMarkerSelected == 5
zMarkerPlain == 3
zOverlaySelected == 6
zOverlayPlain == 4

\* ----------------------------------------------------------------- strings
Max(a, b) == IF a >= b THEN a ELSE b

Min(a, b) == IF a <= b THEN a ELSE b

\* String.prototype.toLowerCase, one character.
LowerChar(c) == CASE c = "A" -> "a" [] c = "B" -> "b" [] c = "C" -> "c" [] OTHER -> c

toLowerCase(s) == [i \in 1..Len(s) |-> LowerChar(s[i])]

RECURSIVE TrimStart(_)
TrimStart(s) == IF s # <<>> /\ Head(s) = " " THEN TrimStart(Tail(s)) ELSE s

RECURSIVE TrimEnd(_)
TrimEnd(s) == IF s # <<>> /\ s[Len(s)] = " " THEN TrimEnd(SubSeq(s, 1, Len(s) - 1)) ELSE s

\* String.prototype.trim
trim(s) == TrimEnd(TrimStart(s))

\* String.prototype.includes: sub occurs in s as a contiguous run.
includes(s, sub) == \E i \in 0..(Len(s) - Len(sub)) : SubSeq(s, i + 1, i + Len(sub)) = sub

\* ----------------------------------------------------------------- persons
NameCycle == << <<"A", "b">>, <<"a", " ", "c">>, <<"C">> >>

StatusCycle == <<"missing", "found", "searching", "missing">>

\* The endpoint's table of records.
PersonTable == [i \in 1..MaxPeople |->
                   [id |-> i,
                    name |-> NameCycle[(i % 3) + 1],
                    status |-> StatusCycle[(i % 4) + 1],
                    lat |-> 350 + ((i * 7) % 11),
                    lng |-> 1270 + ((i * 5) % 13)]]

Person(i) == PersonTable[i]

\* selectedPerson = null
NoPerson == 0

PersonArray(n) == [i \in 1..n |-> i]

\* A JavaScript value held in the people state: an array, or something else.
JArray(items, ref) == [t |-> "array", v |-> items, ref |-> ref]

JNumber(ref) == [t |-> "number", v |-> <<>>, ref |-> ref]

\* What the request can end with: a body of some JSON shape, or a failure.
ResponseKinds == {"array", "wrapped", "null", "scalar", "objNoPeople",
                  "objPeopleNonArray", "networkError", "parseError"}

\* The array lengths the endpoint is tried with: none, one and the largest.
ArrayLens == {0, 1, MaxPeople}

Responses == {[kind |-> k, n |-> n] : k \in {"array", "wrapped"}, n \in ArrayLens}
             \cup {[kind |-> k, n |-> 0] : k \in ResponseKinds \ {"array", "wrapped"}}

\* The search box's values.
Queries == {<<>>, <<" ">>, <<" ", "a">>, <<"B">>, <<"z">>}

\* ----------------------------------------------------------------- cameras
CameraNameCycle == << <<"A", "b">>, <<"a", " ", "c">>, <<"C">> >>

CameraLocationCycle == << <<"B">>, <<"c", "a">> >>

\* The camera records the page can be given.
CameraTable == [i \in 1..MaxCameras |->
                   [id |-> i,
                    name |-> CameraNameCycle[(i % 3) + 1],
                    location |-> CameraLocationCycle[(i % 2) + 1]]]

Camera(i) == CameraTable[i]

\* selectedCamera = null
NoCamera == 0

\* The cameras prop: lists of distinct cameras.
CameraLists ==
    UNION {{l \in [1..n -> 1..MaxCameras] : \A i, j \in 1..n : i # j => l[i] # l[j]} :
              n \in 0..MaxCameras}

\* mockCCTVCameras, the list App passes.
mockCCTVCameras == [i \in 1..MaxCameras |-> i]

\* The camera search box's values.
CameraQueries == {<<>>, <<" ">>, <<"B">>, <<"c", "a">>, <<"z">>}

\* Variant: the initial selection is the last camera of the list.
LastCamera(cams) == IF cams # <<>> THEN cams[Len(cams)] ELSE NoCamera

\* useState<CCTVCamera | null>(cameras[0] || null)
FirstCamera(cams) == IF cams # <<>> THEN cams[1] ELSE NoCamera

\* cameras.filter(name or location includes the query, case ignored)
filteredCameras(cams, sq) ==
    SelectSeq(cams, LAMBDA c :
        \/ includes(toLowerCase(Camera(c).name), toLowerCase(sq))
        \/ includes(toLowerCase(Camera(c).location), toLowerCase(sq)))

\* ----------------------------------------------------------------- vehicles
VehicleTypes == {"police", "taxi", "delivery"}

VehicleStatuses == {"available", "responding", "busy"}

\* A vehicle record, as far as the panel reads it.
Vehicles == [type : VehicleTypes, status : VehicleStatuses]

\* The vehicles prop.
VehicleLists == UNION {[1..n -> Vehicles] : n \in 0..MaxVehicles}

TypeCycle == <<"police", "police", "taxi", "delivery", "taxi", "delivery">>

VehicleStatusCycle == <<"available", "responding", "available", "available", "busy", "available">>

\* mockVehicles, the list App passes.
mockVehicles == [i \in 1..MaxVehicles |->
                    [type |-> TypeCycle[((i - 1) % 6) + 1],
                     status |-> VehicleStatusCycle[((i - 1) % 6) + 1]]]

StatusFilters == {"all", "available", "busy", "responding"}

\* Variant: the filter keeps the vehicles of the other statuses.
filteredVehiclesInverted(vs, f) ==
    SelectSeq(vs, LAMBDA v : IF f = "all" THEN TRUE ELSE v.status # f)

\* vehicles.filter(v => statusFilter === "all" ? true : v.status === statusFilter)
filteredVehicles(vs, f) ==
    SelectSeq(vs, LAMBDA v : IF f = "all" THEN TRUE ELSE v.status = f)

\* vehicles.filter(v => v.type === t).length
typeCount(vs, t) == Len(SelectSeq(vs, LAMBDA v : v.type = t))

\* vehicles.filter(v => v.status === st).length
statusCount(vs, st) == Len(SelectSeq(vs, LAMBDA v : v.status = st))

\* ------------------------------------------------- App: derived per render
\* Array.prototype.slice(a, b)
slice(arr, a, b) == SubSeq(arr, Min(a, Len(arr)) + 1, Min(b, Len(arr)))

\* Math.ceil(a / b) for a >= 0, b > 0
ceilDiv(a, b) == (a + b - 1) \div b

\* q.trim().toLowerCase(), tabulated over the queries the user types.
NormalisedQuery == [qq \in Queries |-> toLowerCase(trim(qq))]

\* p.name.toLowerCase().includes(s), tabulated for the search strings and rows.
NameIncludes == [s \in {toLowerCase(trim(qq)) : qq \in Queries} |->
                    [i \in 1..MaxPeople |-> includes(toLowerCase(Person(i).name), s)]]

\* Variant: the names are compared as written, upper case apart from lower.
filteredAllCaseSensitive(pe, qq) ==
    LET s == toLowerCase(trim(qq))
    IN  IF s # <<>>
        THEN SelectSeq(pe, LAMBDA p : includes(Person(p).name, s))
        ELSE pe

\* useMemo [people, q]: the search applies to the whole list.
filteredAll(pe, qq) ==
    LET s == NormalisedQuery[qq]
    IN  IF s # <<>>
        THEN SelectSeq(pe, LAMBDA p : NameIncludes[s][p])
        ELSE pe

totalPages(n) == Max(1, ceilDiv(n, pageSize))

\* Variant: the slice starts one page late.
pagePeopleOffByOne(F, pg) ==
    LET start == pg * pageSize
    IN  slice(F, start, start + pageSize)

\* useMemo [filteredAll, page]: the side list's five.
pagePeople(F, pg) ==
    LET start == (pg - 1) * pageSize
    IN  slice(F, start, start + pageSize)

\* ------------------------------------------------------------ App: effects
\* Each effect is the sequence of state updates its body enqueues.
\* useEffect(() => { setPage(1); }, [q])
ResetPageEffect == <<1>>

\* Variant: the page is never clamped.
ClampPageEffectNever(pg, tp) == <<>>

\* useEffect(() => { if (page > totalPages) setPage(totalPages); }, [totalPages, page])
ClampPageEffect(pg, tp) == IF pg > tp THEN <<tp>> ELSE <<>>

\* Variant: the effect puts the first person of the result back every time.
RepairSelectionEffectAlwaysFirst(F, sel) ==
    IF Len(F) = 0 THEN <<NoPerson>> ELSE <<F[1]>>

\* useEffect [filteredAll, selectedPerson]: keep the selection inside the result.
RepairSelectionEffect(F, sel) ==
    IF Len(F) = 0 THEN <<NoPerson>>
    ELSE IF sel = NoPerson \/ ~(\E i \in 1..Len(F) : Person(F[i]).id = Person(sel).id)
         THEN <<F[1]>>
         ELSE <<>>

\* React applies a batch of plain-value updates in order: the last one stays.
ApplyUpdates(cur, updates) == IF updates = <<>> THEN cur ELSE updates[Len(updates)]

\* The fetch continuation on a parsed body: the value given to setPeople.
\* Array.isArray(j) ? j : (j.people ?? [])
ParsedPeople(resp, ref) ==
    CASE resp.kind \in {"array", "wrapped"} -> JArray(PersonArray(resp.n), ref)
      [] resp.kind = "objPeopleNonArray" -> JNumber(ref)
      [] OTHER -> JArray(<<>>, ref)

\* arr[0] ?? null
FirstOrNull(arr) == IF arr.t = "array" /\ arr.v # <<>> THEN arr.v[1] ELSE NoPerson

\* The promise chain rejects (and .catch(console.error) swallows it) when the
\* request fails, the body is no JSON, or j.people is read off null.
FetchRejects(resp) == resp.kind \in {"networkError", "parseError", "null"}

\* ------------------------------------------------------------- MapView
colorByStatus(s) ==
    IF s = "missing" THEN "#ef4444" ELSE IF s = "found" THEN "#16a34a" ELSE "#eab308"

HighlightStroke == "#3b82f6"

\* Variant: the selected marker is filled with the highlight colour.
MarkerForSelectedFill(p, sel) ==
    LET selected == sel # NoPerson /\ Person(sel).id = Person(p).id
        color == colorByStatus(Person(p).status)
    IN  [p |-> p, fill |-> IF selected THEN HighlightStroke ELSE color,
         stroke |-> IF selected THEN HighlightStroke ELSE color,
         z |-> IF selected THEN zMarkerSelected ELSE zMarkerPlain]

\* Variant: every marker is drawn as selected while somebody is selected.
MarkerForAnySelection(p, sel) ==
    LET selected == sel # NoPerson
        color == colorByStatus(Person(p).status)
    IN  [p |-> p, fill |-> color,
         stroke |-> IF selected THEN HighlightStroke ELSE color,
         z |-> IF selected THEN zMarkerSelected ELSE zMarkerPlain]

\* new kakao.maps.Marker({position, image: markerImageFor(status, selected), zIndex})
MarkerFor(p, sel) ==
    LET selected == sel # NoPerson /\ Person(sel).id = Person(p).id
        color == colorByStatus(Person(p).status)
    IN  [p |-> p, fill |-> color,
         stroke |-> IF selected THEN HighlightStroke ELSE color,
         z |-> IF selected THEN zMarkerSelected ELSE zMarkerPlain]

\* new kakao.maps.CustomOverlay({position, content: overlayHTML(p), zIndex})
OverlayFor(p, sel) ==
    LET selected == sel # NoPerson /\ Person(sel).id = Person(p).id
    IN  [p |-> p, fg |-> colorByStatus(Person(p).status),
         z |-> IF selected THEN zOverlaySelected ELSE zOverlayPlain]

RECURSIVE RemoveOne(_, _)
RemoveOne(seq, x) ==
    IF seq = <<>> THEN <<>>
    ELSE IF Head(seq) = x THEN Tail(seq)
         ELSE <<Head(seq)>> \o RemoveOne(Tail(seq), x)

\* people.forEach: one marker (overlay) per person, in list order.
NewMarkers(F, sel) == [i \in 1..Len(F) |-> MarkerFor(F[i], sel)]

NewOverlays(F, sel) == [i \in 1..Len(F) |-> OverlayFor(F[i], sel)]

NoViewport == [kind |-> "none", sw |-> <<0, 0>>, ne |-> <<0, 0>>, pad |-> 0, level |-> 0]

\* new kakao.maps.Map(container, {center, level: 7})
CenterViewport(sel) ==
    LET lat == IF sel # NoPerson THEN Person(sel).lat ELSE DefaultLat
        lng == IF sel # NoPerson THEN Person(sel).lng ELSE DefaultLng
    IN  [kind |-> "center", sw |-> <<lat, lng>>, ne |-> <<lat, lng>>, pad |-> 0,
         level |-> MapLevel]

\* LatLngBounds.extend over the list, then map.setBounds(bounds, 50, 50, 50, 50)
RECURSIVE ExtendAll(_, _)
ExtendAll(box, F) ==
    IF F = <<>> THEN box
    ELSE LET p == Person(Head(F))
         IN  ExtendAll([sw |-> <<Min(box.sw[1], p.lat), Min(box.sw[2], p.lng)>>,
                        ne |-> <<Max(box.ne[1], p.lat), Max(box.ne[2], p.lng)>>],
                       Tail(F))

\* Variant: the bounds hold the first person's coordinate only.
BoundsViewportFirstOnly(F) ==
    LET first == <<Person(F[1]).lat, Person(F[1]).lng>>
    IN  [kind |-> "bounds", sw |-> first, ne |-> first, pad |-> BoundsPadding, level |-> 0]

BoundsViewport(F) ==
    LET first == <<Person(F[1]).lat, Person(F[1]).lng>>
        box == ExtendAll([sw |-> first, ne |-> first], F)
    IN  [kind |-> "bounds", sw |-> box.sw, ne |-> box.ne, pad |-> BoundsPadding, level |-> 0]

\* map.setCenter(c): the viewport moves, the level stays.
SetCenterViewport(vp, sel) ==
    LET c == <<Person(sel).lat, Person(sel).lng>>
    IN  [vp EXCEPT !.kind = "center", !.sw = c, !.ne = c, !.pad = 0]

\* The ResizeObserver callback of an observer made while sel was selected:
\* relayout(), and setCenter on sel's coordinate if (selectedPerson).
ResizeCallback(vp, sel) == IF sel # NoPerson THEN SetCenterViewport(vp, sel) ELSE vp

\* A size change is delivered to every active observer.
RECURSIVE ResizeCallbacks(_, _)
ResizeCallbacks(vp, obs) ==
    IF obs = <<>> THEN vp
    ELSE ResizeCallbacks(ResizeCallback(vp, Head(obs)), Tail(obs))

\* Variant: the cleanup does not disconnect.
RunCleanupKeeping(obs, has) == obs

\* The resize effect's cleanup, return () => ro.disconnect(): the observer the
\* last run made goes.  A run that returned early left no cleanup.
RunCleanup(obs, has) == IF has THEN SubSeq(obs, 1, Len(obs) - 1) ELSE obs

\* The resize effect's body: if (!mapObj.current) return; otherwise a new
\* observer, closing over the render's selectedPerson, observes the container.
InstallObserver(obs, hasMap, sel) == IF hasMap THEN Append(obs, sel) ELSE obs

\* One call on the map widget made by the reconciliation effect.
MapOp(name, x) == [op |-> name, x |-> x]

\* Variant: the new markers and overlays are attached before the old ones leave.
ReconcileOpsAttachFirst(mref, oref, F, sel) ==
    [k \in 1..(2 * Len(F)) |->
        IF k % 2 = 1 THEN MapOp("attachMarker", MarkerFor(F[(k + 1) \div 2], sel))
        ELSE MapOp("attachOverlay", OverlayFor(F[k \div 2], sel))]
    \o [k \in 1..Len(mref) |-> MapOp("detachMarker", mref[k])]
    \o [k \in 1..Len(oref) |-> MapOp("detachOverlay", oref[k])]
    \o (IF Len(F) > 0 THEN <<MapOp("setBounds", BoundsViewport(F))>> ELSE <<>>)

\* The calls of one run of the reconciliation effect, in the order the code
\* makes them: setMap(null) on the markers and then the overlays of the refs;
\* for each person a marker's setMap(map), then an overlay's; setBounds when
\* the list is not empty.
ReconcileOps(mref, oref, F, sel) ==
    [k \in 1..Len(mref) |-> MapOp("detachMarker", mref[k])]
    \o [k \in 1..Len(oref) |-> MapOp("detachOverlay", oref[k])]
    \o [k \in 1..(2 * Len(F)) |->
           IF k % 2 = 1 THEN MapOp("attachMarker", MarkerFor(F[(k + 1) \div 2], sel))
           ELSE MapOp("attachOverlay", OverlayFor(F[k \div 2], sel))]
    \o (IF Len(F) > 0 THEN <<MapOp("setBounds", BoundsViewport(F))>> ELSE <<>>)

\* What one call does to the map: its attached markers and overlays, its viewport.
ApplyOp(m, o) ==
    CASE o.op = "detachMarker" -> [m EXCEPT !.markers = RemoveOne(@, o.x)]
      [] o.op = "detachOverlay" -> [m EXCEPT !.overlays = RemoveOne(@, o.x)]
      [] o.op = "attachMarker" -> [m EXCEPT !.markers = Append(@, o.x)]
      [] o.op = "attachOverlay" -> [m EXCEPT !.overlays = Append(@, o.x)]
      [] o.op = "setBounds" -> [m EXCEPT !.viewport = o.x]

\* The calls from the i-th on, one after the other.
RECURSIVE ApplyFrom(_, _, _)
ApplyFrom(m, ops, i) == IF i > Len(ops) THEN m ELSE ApplyFrom(ApplyOp(m, ops[i]), ops, i + 1)

ApplyOps(m, ops) == ApplyFrom(m, ops, 1)

\* ensureKakao, the promise executor: where the caller waits, given the loader's
\* state.  window.kakao?.maps is set from the script's load event on.
HasKakaoMaps(s) == s \in {"scriptLoaded", "ready"}

EnsureKakaoStage(s) == IF HasKakaoMaps(s) THEN "resolved" ELSE "load"

EnsureKakaoSdk(s) == IF s = "absent" THEN "loading" ELSE s

\* Variant: the script is appended without looking for the element.
ScriptsAppendedByUnchecked(s, tags) == IF ~HasKakaoMaps(s) THEN 1 ELSE 0

\* The script elements one ensureKakao call appends: none when window.kakao.maps
\* is there or document.getElementById("kakao-sdk") finds the element.
ScriptsAppendedBy(s, tags) == IF ~HasKakaoMaps(s) /\ ~(tags > 0) THEN 1 ELSE 0

\* The script elements after n calls made one after the other.
RECURSIVE TagsAfterCalls(_, _, _)
TagsAfterCalls(s, tags, n) ==
    IF n = 0 THEN tags
    ELSE TagsAfterCalls(EnsureKakaoSdk(s), tags + ScriptsAppendedBy(s, tags), n - 1)

NoInits == [load |-> 0, ready |-> 0, resolved |-> 0]

\* Variant: the inited flag is not looked at.
InitProceedsUnguarded(containerMounted, initedFlag) == containerMounted

\* init(), after await ensureKakao(): if (!mapRef.current || inited.current) return
InitProceeds(containerMounted, initedFlag) == containerMounted /\ ~initedFlag

\* Variant: a failed request empties the list.
PeopleAfterFetchClearing(resp, pe) ==
    IF FetchRejects(resp) THEN JArray(<<>>, 1 - pe.ref) ELSE ParsedPeople(resp, 1 - pe.ref)

\* Variant: the records of the response are added to the list held.
PeopleAfterFetchMerging(resp, pe) ==
    IF FetchRejects(resp) THEN pe
    ELSE [ParsedPeople(resp, 1 - pe.ref) EXCEPT !.v = pe.v \o @]

\* What the fetch leaves in people / selectedPerson.
PeopleAfterFetch(resp, pe) ==
    IF FetchRejects(resp) THEN pe ELSE ParsedPeople(resp, 1 - pe.ref)

SelectedAfterFetch(resp, sel) ==
    IF FetchRejects(resp) THEN sel ELSE FirstOrNull(ParsedPeople(resp, 0))

\* What the effects' dependency arrays compare of a render.
DepsOf(pe, qq, pg, sel) ==
    [ref |-> pe.ref, q |-> qq, page |-> pg, selectedPerson |-> sel,
     totalPages |-> totalPages(Len(filteredAll(pe.v, qq)))]

\* Whether filteredAll is another array object than in the previous render:
\* the memo is recomputed when people or q changed, and answers people itself
\* for an empty trimmed query.
FilteredRefChanged(old, new) ==
    \/ old.ref # new.ref
    \/ /\ old.q # new.q
       /\ ~(toLowerCase(trim(old.q)) = <<>> /\ toLowerCase(trim(new.q)) = <<>>)

\* Whether selectedPerson is another object than in the previous render: a
\* request's records are new objects, whatever their ids.
SelectedRefChanged(old, new) ==
    \/ old.selectedPerson # new.selectedPerson
    \/ old.ref # new.ref /\ new.selectedPerson # NoPerson

\* React compares each effect's dependency array with the previous render's
\* while rendering, and schedules the effect when an entry differs.
EffectsScheduled(old, new) ==
    (IF old.q # new.q THEN {"reset"} ELSE {})
    \cup (IF SelectedRefChanged(old, new) THEN {"observe"} ELSE {})
    \cup (IF old.totalPages # new.totalPages \/ old.page # new.page THEN {"clamp"} ELSE {})
    \cup (IF FilteredRefChanged(old, new) \/ old.selectedPerson # new.selectedPerson
          THEN {"repair"} ELSE {})

AllEffects == {"reset", "clamp", "repair"}

NoEvent == [ev |-> "none", sel |-> NoPerson, kind |-> "none"]

\* ------------------------------------------------------------------- state
VARIABLES
    cameras,         \* CCTVPage's cameras prop
    selectedCamera,  \* CCTVPage: useState<CCTVCamera | null>, null while not mounted
    searchQuery,     \* CCTVPage: useState("")
    vehicles,        \* NearbyVehicles' vehicles prop
    statusFilter,    \* NearbyVehicles: useState("all")
    people,          \* useState<Person[]>: the value, tagged with its JS type
    selectedPerson,  \* useState<Person | null>
    activeView,      \* useState<"map" | "cctv">
    q,               \* useState("")
    page,            \* useState(1)
    appMounted,      \* App's mount effects have run
    effectsPending,  \* a render is committed whose passive effects have not run
    scheduled,       \* the App effects whose dependencies changed in that render
    crashed,         \* a render threw: React has unmounted the tree
    fetching,        \* person requests in flight
    sdk,             \* the SDK script: absent, loading, failed, scriptLoaded, ready
    scriptTags,      \* script elements with id "kakao-sdk" appended to the document
    inits,           \* init() calls suspended in ensureKakao, per stage
    mapViewMounted,  \* MapView's mount effects have run in this lifetime
    mountSel,        \* selectedPerson as closed over by the suspended init() calls
    inited,          \* inited.current
    mapObj,          \* mapObj.current is a map
    viewport,        \* the map's centre/level or fitted bounds
    mapMarkers,      \* markers attached to the map
    mapOverlays,     \* overlays attached to the map
    markersRef,      \* markersRef.current
    overlaysRef,     \* overlaysRef.current
    reconciled,      \* history: effect 2 has put the committed render on the map
    observers,       \* active ResizeObservers, each the selectedPerson it closes over
    roCleanup,       \* the resize effect's last run returned its cleanup
    constructed,     \* maps constructed in this MapView lifetime
    initRuns,        \* init() calls in this MapView lifetime
    last             \* history: whether the last event was a query change or a
                     \* request's end, the selection just before it, the response kind

appVars == <<people, selectedPerson, activeView, q, page>>

reactVars == <<appMounted, effectsPending, scheduled, crashed>>

mapVars == <<mapViewMounted, mountSel, inited, mapObj, viewport, mapMarkers, mapOverlays,
             markersRef, overlaysRef, reconciled, observers, roCleanup, constructed,
             initRuns>>

\* The resize effect's state.
roVars == <<observers, roCleanup>>

\* mapVars but the history flag
mapRest == <<mapViewMounted, mountSel, inited, mapObj, viewport, mapMarkers, mapOverlays,
             markersRef, overlaysRef, constructed, initRuns>>

\* The state of the two panels that keep state of their own.
cctvVars == <<cameras, selectedCamera, searchQuery>>

vehicleVars == <<vehicles, statusFilter>>

vars == <<appVars, reactVars, fetching, sdk, scriptTags, inits, mapVars, last, cctvVars,
          vehicleVars>>

HookState == DepsOf(people, q, page, selectedPerson)

\* The values the committed render derived.
FilteredNow == filteredAll(people.v, q)

TotalPagesNow == totalPages(Len(FilteredNow))

PagePeopleNow == pagePeople(FilteredNow, page)

\* The map widget as it stands.
MapNow == [markers |-> mapMarkers, overlays |-> mapOverlays, viewport |-> viewport]

\* <MapView people={filteredAll} ... />
MapPeopleProp == FilteredNow

\* Variant: the side panel is given the whole filtered list.
SidePeoplePropWhole == FilteredNow

\* <PeopleSidebar people={pagePeople} ... />
SidePeopleProp == PagePeopleNow

\* PeopleSidebar: people.filter(p => p.status === 'missing').length
missingCount(ps) == Len(SelectSeq(ps, LAMBDA p : Person(p).status = "missing"))

\* PeopleSidebar: people.filter(p => p.status === 'found').length
foundCount(ps) == Len(SelectSeq(ps, LAMBDA p : Person(p).status = "found"))

\* Nothing is queued: no passive effect and no promise continuation (those run
\* before the next event is handled).
Idle == inits.resolved = 0

Settled == ~effectsPending /\ ~crashed /\ Idle

\* The first render of App, map view: NearbyVehicles is mounted, CCTVPage is not.
AppInit ==
    /\ people = JArray(<<>>, 0)
    /\ selectedPerson = NoPerson
    /\ activeView = "map"
    /\ q = <<>>
    /\ page = 1
    /\ appMounted = FALSE
    /\ effectsPending = TRUE
    /\ scheduled = AllEffects
    /\ crashed = FALSE
    /\ fetching = 0
    /\ sdk = "absent"
    /\ scriptTags = 0
    /\ inits = NoInits
    /\ mapViewMounted = FALSE
    /\ mountSel = NoPerson
    /\ inited = FALSE
    /\ mapObj = FALSE
    /\ viewport = NoViewport
    /\ mapMarkers = <<>>
    /\ mapOverlays = <<>>
    /\ markersRef = <<>>
    /\ overlaysRef = <<>>
    /\ reconciled = FALSE
    /\ observers = <<>>
    /\ roCleanup = FALSE
    /\ constructed = 0
    /\ initRuns = 0
    /\ last = NoEvent
    /\ selectedCamera = NoCamera
    /\ searchQuery = <<>>
    /\ statusFilter = "all"

Init ==
    /\ AppInit
    /\ cameras = mockCCTVCameras
    /\ vehicles = mockVehicles

\* --------------------------------------------------------- effect flushing
\* MapView effect 1 (deps []), invoked runs times at mount: each init() call
\* enters ensureKakao and suspends.
MapMountEffects(runs) ==
    /\ mapViewMounted' = TRUE
    /\ initRuns' = initRuns + runs
    /\ sdk' = EnsureKakaoSdk(sdk)
    /\ scriptTags' = TagsAfterCalls(sdk, scriptTags, runs)
    /\ IF sdk = "failed"
       THEN UNCHANGED <<inits, mountSel>>
       ELSE /\ inits' = [inits EXCEPT ![EnsureKakaoStage(sdk)] = @ + runs]
            /\ mountSel' = selectedPerson

\* MapView effect 2 (deps [people, selectedPerson, onPersonSelect]; the callback
\* is a new function in every App render, so the effect runs after every render).
Reconcile(F, sel) ==
    IF mapObj /\ HasKakaoMaps(sdk)
    THEN \E after \in {ApplyOps(MapNow, ReconcileOps(markersRef, overlaysRef, F, sel))} :
             /\ mapMarkers' = after.markers
             /\ mapOverlays' = after.overlays
             /\ viewport' = after.viewport
             /\ markersRef' = NewMarkers(F, sel)
             /\ overlaysRef' = NewOverlays(F, sel)
    ELSE UNCHANGED <<mapMarkers, mapOverlays, markersRef, overlaysRef, viewport>>

\* MapView effect 3 (deps [selectedPerson]): the cleanup of its last run, then
\* its body.  (At mount there is no map yet, so a repeated invocation makes no
\* observer either; the body's setTimeout only calls relayout.)
ObserveResize(sel) ==
    /\ observers' = InstallObserver(RunCleanup(observers, roCleanup), mapObj, sel)
    /\ roCleanup' = mapObj

\* The page updates App's effects enqueue, in declaration order.
PageUpdates(F) ==
    (IF "reset" \in scheduled THEN ResetPageEffect ELSE <<>>)
    \o (IF "clamp" \in scheduled THEN ClampPageEffect(page, totalPages(Len(F))) ELSE <<>>)

SelectionUpdates(F) ==
    IF "repair" \in scheduled THEN RepairSelectionEffect(F, selectedPerson) ELSE <<>>

\* The passive effects of the committed render, children first; then the batch
\* of their updates is applied and the next render committed.  runs > 1 is
\* the repeated invocation of mount effects.
FlushEffects(runs) ==
    /\ effectsPending /\ ~crashed /\ Idle
    /\ runs > 1 => (~appMounted \/ (activeView = "map" /\ ~mapViewMounted))
    /\ IF activeView = "map"
       THEN /\ IF ~mapViewMounted
               THEN MapMountEffects(runs)
               ELSE UNCHANGED <<mapViewMounted, mountSel, initRuns, sdk, scriptTags, inits>>
            /\ Reconcile(MapPeopleProp, selectedPerson)
            /\ IF ~mapViewMounted \/ "observe" \in scheduled
               THEN ObserveResize(selectedPerson)
               ELSE UNCHANGED roVars
       ELSE UNCHANGED <<mapViewMounted, mountSel, initRuns, sdk, scriptTags, inits, mapMarkers,
                        mapOverlays, markersRef, overlaysRef, viewport, roVars>>
    /\ fetching' = IF appMounted THEN fetching ELSE fetching + runs
    /\ appMounted' = TRUE
    /\ page' = ApplyUpdates(page, PageUpdates(FilteredNow))
    /\ selectedPerson' = ApplyUpdates(selectedPerson, SelectionUpdates(FilteredNow))
    /\ effectsPending' = (page' # page \/ selectedPerson' # selectedPerson)
    /\ reconciled' = (activeView = "map" /\ mapObj /\ HasKakaoMaps(sdk) /\ ~effectsPending')
    /\ scheduled' = EffectsScheduled(HookState, DepsOf(people, q, page', selectedPerson'))
    /\ UNCHANGED <<people, activeView, q, crashed, inited, mapObj, constructed, last>>
    /\ UNCHANGED <<cctvVars, vehicleVars>>

\* ------------------------------------------------------------------ events
\* A request ends with resp and the async function runs on: setPeople(arr);
\* setSelectedPerson(arr[0] ?? null), or the rejection handler console.error.
\* A value that is no array makes the next render throw (filteredAll.slice,
\* people.forEach).
FetchComplete(resp) ==
    /\ Settled /\ fetching > 0
    /\ fetching' = fetching - 1
    /\ last' = [ev |-> IF FetchRejects(resp) THEN "fetchFailed" ELSE "fetch",
                sel |-> selectedPerson, kind |-> resp.kind]
    /\ people' = PeopleAfterFetch(resp, people)
    /\ selectedPerson' = SelectedAfterFetch(resp, selectedPerson)
    /\ crashed' = (people'.t # "array")
    /\ effectsPending' = (~FetchRejects(resp) /\ ~crashed')
    /\ scheduled' = IF crashed' THEN {}
                    ELSE EffectsScheduled(HookState, DepsOf(people', q, page, selectedPerson'))
    /\ reconciled' = FALSE
    /\ IF crashed'
       THEN observers' = RunCleanup(observers, roCleanup) /\ roCleanup' = FALSE
       ELSE UNCHANGED roVars
    /\ UNCHANGED <<activeView, q, page, appMounted, sdk, scriptTags, inits, mapRest>>
    /\ UNCHANGED <<cctvVars, vehicleVars>>

\* onChange of the search box
SetQ(newq) ==
    /\ Settled /\ activeView = "map" /\ newq # q
    /\ q' = newq
    /\ last' = [ev |-> "query", sel |-> selectedPerson, kind |-> "none"]
    /\ effectsPending' = TRUE
    /\ scheduled' = EffectsScheduled(HookState, DepsOf(people, newq, page, selectedPerson))
    /\ reconciled' = FALSE
    /\ UNCHANGED <<people, selectedPerson, activeView, page, appMounted, crashed, fetching,
                   sdk, scriptTags, inits, mapRest, roVars>>
    /\ UNCHANGED <<cctvVars, vehicleVars>>

\* setPage from a button, with the page the updater function computes.
SetPage(newpage) ==
    /\ page' = newpage
    /\ last' = NoEvent
    /\ effectsPending' = TRUE
    /\ scheduled' = EffectsScheduled(HookState, DepsOf(people, q, newpage, selectedPerson))
    /\ reconciled' = FALSE
    /\ UNCHANGED <<people, selectedPerson, activeView, q, appMounted, crashed, fetching,
                   sdk, scriptTags, inits, mapRest, roVars>>
    /\ UNCHANGED <<cctvVars, vehicleVars>>

\* The "previous" button: disabled={page <= 1}
PrevPage ==
    /\ Settled /\ activeView = "map" /\ ~(page <= 1)
    /\ SetPage(Max(1, page - 1))

\* The "next" button: disabled={page >= totalPages}
NextPage ==
    /\ Settled /\ activeView = "map" /\ ~(page >= TotalPagesNow)
    /\ SetPage(Min(TotalPagesNow, page + 1))

\* handlePersonSelect(p); setting the state it already has renders nothing.
SelectPerson(p) ==
    /\ p # selectedPerson
    /\ selectedPerson' = p
    /\ last' = [ev |-> "select", sel |-> p, kind |-> "none"]
    /\ effectsPending' = TRUE
    /\ scheduled' = EffectsScheduled(HookState, DepsOf(people, q, page, p))
    /\ reconciled' = FALSE
    /\ UNCHANGED <<people, activeView, q, page, appMounted, crashed, fetching, sdk, scriptTags,
                   inits, mapRest, roVars>>
    /\ UNCHANGED <<cctvVars, vehicleVars>>

\* A click on a row of the side list.
ClickRow(i) ==
    /\ Settled /\ activeView = "map" /\ i \in 1..Len(SidePeopleProp)
    /\ SelectPerson(SidePeopleProp[i])

\* A click on a marker: its listener closes over the person it was made for.
ClickMarker(i) ==
    /\ Settled /\ activeView = "map" /\ i \in 1..Len(mapMarkers)
    /\ SelectPerson(mapMarkers[i].p)

\* Variant: the button toggles the view, whichever view it names.
ViewAfterClickToggling(cur, v) == IF cur = "map" THEN "cctv" ELSE "map"

\* onClick={() => onViewChange("map" | "cctv")}, handleViewChange = setActiveView
ViewAfterClick(cur, v) == v

\* A navigation button.  Setting the state to the value it has renders
\* nothing.  Leaving the map view unmounts MapView: its refs and suspended
\* init() calls are those of a container that is gone.
ViewChange(v) ==
    /\ Settled
    /\ last' = [ev |-> "view", sel |-> NoPerson, kind |-> v]
    /\ activeView' = ViewAfterClick(activeView, v)
    /\ UNCHANGED <<cameras, vehicles>>
    /\ IF activeView' = activeView
       THEN UNCHANGED <<people, selectedPerson, q, page, reactVars, fetching, sdk, scriptTags,
                        inits, mapVars, selectedCamera, searchQuery, statusFilter>>
       ELSE /\ effectsPending' = TRUE
            /\ scheduled' = {}
            /\ IF activeView' = "cctv"
               THEN /\ mapViewMounted' = FALSE /\ mountSel' = NoPerson /\ inited' = FALSE
                    /\ mapObj' = FALSE /\ viewport' = NoViewport
                    /\ mapMarkers' = <<>> /\ mapOverlays' = <<>>
                    /\ markersRef' = <<>> /\ overlaysRef' = <<>>
                    /\ constructed' = 0 /\ initRuns' = 0
                    /\ inits' = NoInits
                    /\ observers' = RunCleanup(observers, roCleanup) /\ roCleanup' = FALSE
                    /\ selectedCamera' = FirstCamera(cameras)
               ELSE /\ selectedCamera' = NoCamera
                    /\ UNCHANGED <<mapRest, inits, roVars>>
            /\ searchQuery' = <<>>
            /\ statusFilter' = "all"
            /\ reconciled' = FALSE
            /\ UNCHANGED <<people, selectedPerson, q, page, appMounted, crashed, fetching, sdk,
                           scriptTags>>

\* The script's load event: s.onload and every "load" listener call
\* kakao.maps.load(resolve).
ScriptLoad ==
    /\ sdk = "loading" /\ Idle
    /\ sdk' = "scriptLoaded"
    /\ inits' = [inits EXCEPT !.load = 0, !.ready = @ + inits.load]
    /\ last' = NoEvent
    /\ UNCHANGED <<appVars, reactVars, fetching, scriptTags, mapVars>>
    /\ UNCHANGED <<cctvVars, vehicleVars>>

\* The script fails to load: no load event will come, and the calls suspended
\* on it (with their closures) never resume.
ScriptError ==
    /\ sdk = "loading" /\ Idle
    /\ sdk' = "failed"
    /\ inits' = NoInits
    /\ mountSel' = NoPerson
    /\ last' = NoEvent
    /\ UNCHANGED <<appVars, reactVars, fetching, scriptTags, mapViewMounted, inited, mapObj, viewport,
                   mapMarkers, mapOverlays, markersRef, overlaysRef, reconciled, roVars,
                   constructed, initRuns>>
    /\ UNCHANGED <<cctvVars, vehicleVars>>

\* The SDK's libraries are in: the callbacks given to kakao.maps.load run.
SdkReady ==
    /\ sdk = "scriptLoaded" /\ Idle
    /\ sdk' = "ready"
    /\ inits' = [inits EXCEPT !.ready = 0, !.resolved = @ + inits.ready]
    /\ last' = NoEvent
    /\ UNCHANGED <<appVars, reactVars, fetching, scriptTags, mapVars>>
    /\ UNCHANGED <<cctvVars, vehicleVars>>

\* One init() call resumes after its await.  Before the SDK is ready
\* kakao.maps.LatLng is no constructor: the call throws after setting inited.
\* The closure goes with the last suspended call.
InitContinue ==
    /\ inits.resolved > 0
    /\ inits' = [inits EXCEPT !.resolved = @ - 1]
    /\ mountSel' = IF inits' = NoInits THEN NoPerson ELSE mountSel
    /\ IF InitProceeds(activeView = "map" /\ ~crashed, inited)
       THEN /\ inited' = TRUE
            /\ IF sdk = "ready"
               THEN /\ mapObj' = TRUE
                    /\ viewport' = CenterViewport(mountSel)
                    /\ constructed' = constructed + 1
               ELSE UNCHANGED <<mapObj, viewport, constructed>>
       ELSE UNCHANGED <<inited, mapObj, viewport, constructed>>
    /\ UNCHANGED <<appVars, reactVars, fetching, sdk, scriptTags, mapViewMounted, mapMarkers,
                   mapOverlays, markersRef, overlaysRef, reconciled, roVars, initRuns, last>>
    /\ UNCHANGED <<cctvVars, vehicleVars>>

\* The container's size changes: the ResizeObserver callbacks run.
Resize ==
    /\ Settled /\ activeView = "map" /\ mapViewMounted
    /\ viewport' = ResizeCallbacks(viewport, observers)
    /\ last' = [ev |-> "resize", sel |-> NoPerson,
                kind |-> IF observers # <<>> THEN "relayout" ELSE "none"]
    /\ UNCHANGED <<appVars, reactVars, fetching, sdk, scriptTags, inits, mapViewMounted,
                   mountSel, inited, mapObj, mapMarkers, mapOverlays, markersRef, overlaysRef,
                   reconciled, roVars, constructed, initRuns>>
    /\ UNCHANGED <<cctvVars, vehicleVars>>

Next ==
    \/ \E runs \in 1..StrictModeRuns : FlushEffects(runs)
    \/ \E resp \in Responses : FetchComplete(resp)
    \/ \E newq \in Queries : SetQ(newq)
    \/ PrevPage
    \/ NextPage
    \/ \E i \in 1..pageSize : ClickRow(i)
    \/ \E i \in 1..MaxPeople : ClickMarker(i)
    \/ \E v \in {"map", "cctv"} : ViewChange(v)
    \/ ScriptLoad
    \/ ScriptError
    \/ SdkReady
    \/ InitContinue
    \/ Resize

\* Startup with nobody at the controls: the mount effects, the request(s) and
\* the SDK's loading, in any order.
StartupNext ==
    \/ \E runs \in 1..StrictModeRuns : FlushEffects(runs)
    \/ \E resp \in Responses : FetchComplete(resp)
    \/ ScriptLoad
    \/ SdkReady
    \/ InitContinue

StartupSpec == Init /\ [][StartupNext]_vars

\* ---------------------------------------------------------------- CCTVPage
\* The rows CCTVPage shows.
FilteredCamerasNow == filteredCameras(cameras, searchQuery)

\* A click on a camera row: setSelectedCamera(camera)
CameraClick(i) ==
    /\ Settled /\ activeView = "cctv" /\ i \in 1..Len(FilteredCamerasNow)
    /\ selectedCamera' = FilteredCamerasNow[i]
    /\ last' = [ev |-> "camera", sel |-> NoPerson, kind |-> "none"]
    /\ UNCHANGED <<appVars, reactVars, fetching, sdk, scriptTags, inits, mapVars, cameras,
                   searchQuery, vehicleVars>>

\* onChange of the camera search box: setSearchQuery(e.target.value)
CameraSearch(sq) ==
    /\ Settled /\ activeView = "cctv" /\ sq # searchQuery
    /\ searchQuery' = sq
    /\ last' = [ev |-> "cameraQuery", sel |-> NoPerson, kind |-> "none"]
    /\ UNCHANGED <<appVars, reactVars, fetching, sdk, scriptTags, inits, mapVars, cameras,
                   selectedCamera, vehicleVars>>

\* App with any camera list, and the events of the camera view.
CctvInit == AppInit /\ cameras \in CameraLists /\ vehicles = mockVehicles

CctvNext ==
    \/ \E runs \in 1..StrictModeRuns : FlushEffects(runs)
    \/ \E v \in {"map", "cctv"} : ViewChange(v)
    \/ \E i \in 1..MaxCameras : CameraClick(i)
    \/ \E sq \in CameraQueries : CameraSearch(sq)

CctvSpec == CctvInit /\ [][CctvNext]_vars

\* ---------------------------------------------------------- NearbyVehicles
\* The rows NearbyVehicles shows.
FilteredVehiclesNow == filteredVehicles(vehicles, statusFilter)

\* A click on a filter button: setStatusFilter(f)
FilterClick(f) ==
    /\ Settled /\ activeView = "map"
    /\ statusFilter' = f
    /\ last' = [ev |-> "filter", sel |-> NoPerson, kind |-> f]
    /\ UNCHANGED <<appVars, reactVars, fetching, sdk, scriptTags, inits, mapVars, cctvVars,
                   vehicles>>

\* App with any vehicle list, and the events of the vehicle panel.
VehicleInit == AppInit /\ cameras = mockCCTVCameras /\ vehicles \in VehicleLists

VehicleNext ==
    \/ \E runs \in 1..StrictModeRuns : FlushEffects(runs)
    \/ \E v \in {"map", "cctv"} : ViewChange(v)
    \/ \E f \in StatusFilters : FilterClick(f)

VehicleSpec == VehicleInit /\ [][VehicleNext]_vars

Spec == Init /\ [][Next]_vars

\* ------------------------------------------------------------------ claims
\* The search box's letters, independent of toLowerCase.
SameLetter(a, b) ==
    \/ a = b
    \/ {a, b} \in {{"A", "a"}, {"B", "b"}, {"C", "c"}}

\* sub occurs in name, letter case ignored.
ContainsIgnoringCase(name, sub) ==
    \E i \in 0..(Len(name) - Len(sub)) :
        \A j \in 1..Len(sub) : SameLetter(name[i + j], sub[j])

\* The rows of arr whose name contains sub, in order.
Matching(arr, sub) == SelectSeq(arr, LAMBDA p : ContainsIgnoringCase(Person(p).name, sub))

\* C1: once the effects of a change of the search query have run, the page
\* is 1, whatever the page was before.
C1_QueryChangeResetsPage ==
    (Settled /\ last.ev = "query") => page = 1

\* C2 as written: in every state the page is between 1 and totalPages, and
\* totalPages is max(1, ceil(n / 5)) for the n persons of the filtered list.
C2_PageInRangeAlways ==
    ~crashed =>
        LET n == Len(FilteredNow)
            tp == TotalPagesNow
        IN  /\ 1 <= page /\ page <= tp
            /\ tp >= 1
            /\ (n = 0 => tp = 1)
            /\ (n > 0 => ((tp - 1) * 5 < n /\ n <= tp * 5))

\* C2, amended: in every state in which no effect pass is pending the page is
\* between 1 and totalPages; totalPages is max(1, ceil(n / 5)) in every state.
C2_PageInRangeOnceEffectsRan ==
    ~crashed =>
        LET n == Len(FilteredNow)
            tp == TotalPagesNow
        IN  /\ ~effectsPending => (1 <= page /\ page <= tp)
            /\ 1 <= page
            /\ tp >= 1
            /\ (n = 0 => tp = 1)
            /\ (n > 0 => ((tp - 1) * 5 < n /\ n <= tp * 5))

\* The clamp has acted: a query change left fewer pages than the page shown,
\* and the page is the last one.
C2_Witness ==
    Settled /\ last.ev = "query" /\ page = TotalPagesNow /\ page > 1

\* C3: once the effects of a fetch or of a query change have run: if the id
\* selected before is in the new filtered list the selection is unchanged;
\* otherwise it is the first person of the filtered list, or null when that
\* list is empty; and with an empty list totalPages = 1, page = 1 and the
\* side list is empty.
C3_SelectionRepaired ==
    (Settled /\ last.ev \in {"query", "fetch"}) =>
        LET F == FilteredNow
            kept == /\ last.sel # NoPerson
                    /\ \E i \in 1..Len(F) : Person(F[i]).id = Person(last.sel).id
        IN  /\ kept => selectedPerson = last.sel
            /\ (~kept /\ F # <<>>) => selectedPerson = F[1]
            /\ F = <<>> => /\ selectedPerson = NoPerson
                           /\ TotalPagesNow = 1
                           /\ page = 1
                           /\ SidePeopleProp = <<>>

\* C4 as written: the filtered list is the persons whose name contains q,
\* case ignored, in their order, and the whole list when q is empty.
C4_FilterByQuery ==
    ~crashed => FilteredNow = Matching(people.v, q)

\* C4, amended: the filtered list is the persons whose name contains q with
\* its leading and trailing white space removed, case ignored, in their order;
\* the whole list when nothing is left of q.
C4_FilterByTrimmedQuery ==
    ~crashed =>
        /\ FilteredNow = Matching(people.v, trim(q))
        /\ (\A i \in 1..Len(q) : q[i] = " ") => FilteredNow = people.v

\* The search has a query with white space around it and upper-case names
\* among its matches.
C4_Witness ==
    /\ Settled /\ q = <<" ", "a">> /\ Len(people.v) = MaxPeople
    /\ FilteredNow # people.v
    /\ \E i \in 1..Len(FilteredNow) : Person(FilteredNow[i]).name[1] = "A"

\* C5: the side list is the slice of the filtered list F from (page-1)*5 up
\* to min(page*5, n): at most 5 persons, not empty when F is not empty and the
\* effects have run; the list the map has drawn is the whole of F.
C5_SideSliceMapWhole ==
    ~crashed =>
        LET F == FilteredNow
            P == SidePeopleProp
            lo == (page - 1) * 5
            hi == Min(page * 5, Len(F))
        IN  /\ Len(P) = Max(0, hi - lo)
            /\ \A i \in 1..Len(P) : P[i] = F[lo + i]
            /\ Len(P) <= 5
            /\ (~effectsPending /\ F # <<>>) => P # <<>>
            /\ MapPeopleProp = F
            /\ reconciled => /\ Len(mapMarkers) = Len(F)
                             /\ \A i \in 1..Len(F) : mapMarkers[i].p = F[i]

\* Page 2 of an 11-person list: five in the side list, eleven on the map.
C5_Witness ==
    /\ Settled /\ reconciled /\ page = 2 /\ Len(FilteredNow) = MaxPeople
    /\ Len(SidePeopleProp) = 5 /\ SidePeopleProp[1] = FilteredNow[6]
    /\ Len(mapMarkers) = MaxPeople

\* C6: once the effects of an update have run, the markers attached to the map
\* are as many as the persons of the list given to the map, and so are the
\* overlays; the attached ones are those of the last reconciliation, one per
\* person in list order.
C6_MarkersMatchList ==
    (Settled /\ activeView = "map" /\ mapObj) =>
        LET F == MapPeopleProp
        IN  /\ Len(mapMarkers) = Len(F)
            /\ Len(mapOverlays) = Len(F)
            /\ mapMarkers = markersRef
            /\ mapOverlays = overlaysRef
            /\ \A i \in 1..Len(F) : mapMarkers[i].p = F[i] /\ mapOverlays[i].p = F[i]

\* Startup is over: nothing is pending or in flight, the SDK is loaded and a
\* request has left a non-empty list.
StartupOver ==
    /\ Settled /\ fetching = 0 /\ sdk = "ready" /\ inits = NoInits
    /\ people.v # <<>>

\* C7: when startup is over with a non-empty array arr fetched and the SDK
\* loaded, in either order and with nobody touching the page, the first
\* person of arr is selected and the map shows one marker per person of arr,
\* filled with the person's status colour, with the viewport fitted to the
\* bounds of arr.
C7_StartupShowsAll ==
    StartupOver =>
        /\ selectedPerson = people.v[1]
        /\ mapObj
        /\ Len(mapMarkers) = Len(people.v)
        /\ \A i \in 1..Len(mapMarkers) :
               /\ mapMarkers[i].p = people.v[i]
               /\ mapMarkers[i].fill = colorByStatus(Person(people.v[i]).status)
        /\ viewport = BoundsViewport(people.v)

\* A request has just ended with a parsed body of kind k.
FetchEndedWith(kinds) == fetching' < fetching /\ last'.kind \in kinds

\* C8: when the response parses to JSON that is neither an array nor an
\* object with an array under "people", the person list and the selection
\* keep their values and the next render does not throw.
C8_OtherShapesLeaveList ==
    [][FetchEndedWith({"null", "scalar", "objNoPeople", "objPeopleNonArray"}) =>
          /\ people'.t = people.t /\ people'.v = people.v
          /\ selectedPerson' = selectedPerson
          /\ ~crashed']_vars

\* C9: when the request fails or its body is no JSON, the person list, the
\* selection, the query and the page keep their values, and no render throws.
C9_FailureKeepsState ==
    [][FetchEndedWith({"networkError", "parseError"}) =>
          /\ people' = people
          /\ selectedPerson' = selectedPerson
          /\ q' = q
          /\ page' = page
          /\ ~crashed'
          /\ ~effectsPending']_vars

\* A request failed while a list, a selection, a query and a page were set.
C9_Witness ==
    /\ last.ev = "fetchFailed" /\ last.kind \in {"networkError", "parseError"}
    /\ people.v # <<>> /\ selectedPerson # NoPerson /\ q # <<>> /\ page > 1
    /\ ~crashed

\* C10: in one lifetime of MapView the map is constructed at most once.
C10_MapConstructedOnce ==
    constructed <= 1

\* Two init() calls were suspended on the SDK together; both have resumed and
\* one map stands.
C10_Witness ==
    /\ initRuns = StrictModeRuns /\ inits = NoInits /\ sdk = "ready"
    /\ constructed = 1 /\ mapObj /\ inited

\* C11: at most one SDK script element is ever appended; the callers waiting
\* on the script's load event are all resumed by that one load (and their
\* promises resolved by the one kakao.maps.load that follows it); a caller
\* arriving while the script loads joins them without another script, and a
\* caller arriving once window.kakao.maps is there resolves at once without
\* another script.
C11_OneScriptSharedLoad ==
    [][/\ scriptTags' <= 1
       /\ (inits'.load > 0 => sdk' = "loading")
       /\ (inits'.ready > 0 => sdk' = "scriptLoaded")
       /\ (initRuns' > initRuns /\ sdk = "loading") =>
              /\ scriptTags' = scriptTags /\ sdk' = sdk
              /\ inits' = [inits EXCEPT !.load = @ + (initRuns' - initRuns)]
       /\ (initRuns' > initRuns /\ sdk \in {"scriptLoaded", "ready"}) =>
              /\ scriptTags' = scriptTags /\ sdk' = sdk
              /\ inits' = [inits EXCEPT !.resolved = @ + (initRuns' - initRuns)]
       /\ (sdk = "loading" /\ sdk' = "scriptLoaded") =>
              (inits'.load = 0 /\ inits'.ready = inits.load)
       /\ (sdk = "scriptLoaded" /\ sdk' = "ready") =>
              (inits'.ready = 0 /\ inits'.resolved = inits.resolved + inits.ready)]_vars

\* Two callers that waited together on the one script have both been resolved.
C11_Witness ==
    /\ scriptTags = 1 /\ sdk = "ready"
    /\ initRuns = StrictModeRuns /\ inits.resolved = StrictModeRuns

\* A reconciliation run is about to start on a map.
ReconcileDue == effectsPending /\ ~crashed /\ Idle /\ activeView = "map" /\ mapObj

\* How many of the first k calls of ops have one of the names.
CountOps(ops, k, names) == Cardinality({i \in 1..k : ops[i].op \in names})

\* C12: in every reconciliation run each marker and overlay of the run before
\* is detached before the first new one is attached; setBounds is the last
\* call, made after a marker and an overlay have been attached for every
\* person of the list; and when the first marker of this run is attached
\* nothing of the run before is on the map (nothing is attached that the refs
\* do not hold).
C12_TeardownThenCreateThenFit ==
    /\ mapMarkers = markersRef /\ mapOverlays = overlaysRef
    /\ ReconcileDue =>
           LET F == MapPeopleProp
               ops == ReconcileOps(markersRef, overlaysRef, F, selectedPerson)
               n == Len(ops)
               detach == {"detachMarker", "detachOverlay"}
               attach == {"attachMarker", "attachOverlay"}
               torn == CountOps(ops, n, detach)
           IN  /\ \A i \in 1..n : ops[i].op \in detach => i <= torn
               /\ \A i \in 1..n : ops[i].op \in attach => i > torn
               /\ CountOps(ops, n, {"detachMarker"}) = Len(mapMarkers)
               /\ CountOps(ops, n, {"detachOverlay"}) = Len(mapOverlays)
               /\ \A i \in 1..n :
                      ops[i].op = "setBounds" =>
                          /\ i = n
                          /\ CountOps(ops, i, {"attachMarker"}) = Len(F)
                          /\ CountOps(ops, i, {"attachOverlay"}) = Len(F)
               /\ LET m == ApplyOps(MapNow, SubSeq(ops, 1, torn))
                   IN  m.markers = <<>> /\ m.overlays = <<>>

\* A run is due that has markers to take off and persons to draw.
C12_Witness ==
    ReconcileDue /\ Len(markersRef) > 1 /\ Len(MapPeopleProp) > 1
    /\ Len(markersRef) # Len(MapPeopleProp)

\* The colour the status stands for.
StatusColour(st) ==
    CASE st = "missing" -> "#ef4444" [] st = "found" -> "#16a34a" [] st = "searching" -> "#eab308"

\* C13: a marker's fill is its person's status colour (missing red #ef4444,
\* found green #16a34a, searching yellow #eab308), selected or not; the
\* selected marker differs by its stroke (highlight blue #3b82f6 instead of
\* the status colour) and its draw order (marker z 5 instead of 3, overlay z 6
\* instead of 4).  Stated of every marker and overlay on the map, and, when a
\* reconciliation is due, of the marker and overlay the code makes for every
\* person of its list under the present selection, under no selection and
\* when the person itself is selected.
C13_FillByStatusOnly ==
    /\ \A i \in 1..Len(mapMarkers) :
           LET m == mapMarkers[i]
           IN  /\ m.fill = StatusColour(Person(m.p).status)
               /\ \/ m.stroke = "#3b82f6" /\ m.z = 5
                  \/ m.stroke = m.fill /\ m.z = 3
    /\ \A i \in 1..Len(mapOverlays) :
           /\ mapOverlays[i].fg = StatusColour(Person(mapOverlays[i].p).status)
           /\ mapOverlays[i].z \in {4, 6}
           /\ i <= Len(mapMarkers) => (mapOverlays[i].z = 6 <=> mapMarkers[i].z = 5)
    /\ ReconcileDue =>
           \A i \in 1..Len(MapPeopleProp) :
               LET p == MapPeopleProp[i]
                   c == StatusColour(Person(p).status)
                   plain == [p |-> p, fill |-> c, stroke |-> c, z |-> 3]
                   picked == [p |-> p, fill |-> c, stroke |-> "#3b82f6", z |-> 5]
               IN  /\ MarkerFor(p, NoPerson) = plain
                   /\ MarkerFor(p, p) = picked
                   /\ MarkerFor(p, selectedPerson) = (IF selectedPerson = p THEN picked ELSE plain)
                   /\ OverlayFor(p, NoPerson).z = 4 /\ OverlayFor(p, p).z = 6

\* The map shows markers of all three statuses, one of them selected.
C13_Witness ==
    /\ reconciled
    /\ \A st \in {"missing", "found", "searching"} :
           \E i \in 1..Len(mapMarkers) : Person(mapMarkers[i].p).status = st
    /\ \E i \in 1..Len(mapMarkers) :
           /\ mapMarkers[i].z = 5 /\ mapMarkers[i].stroke = "#3b82f6"
           /\ mapMarkers[i].fill = "#ef4444"

\* C14: at most one person request is in flight at any time, and once a
\* request has ended, with a list or with a failure, none is in flight any
\* more: no duplicate, no retry, one completion.
C14_SingleFetch ==
    /\ fetching <= 1
    /\ last.ev \in {"fetch", "fetchFailed"} => fetching = 0

\* C15: when nothing is pending any more and both the SDK and the container
\* are there, the map has been constructed (an initialization skipped earlier
\* was tried again); and init() never fails half way, that is with
\* inited.current set and no map made.
C15_InitRetried ==
    /\ (Settled /\ activeView = "map" /\ mapViewMounted /\ sdk = "ready" /\ inits = NoInits)
           => mapObj
    /\ inited => mapObj

\* C16: when the map is constructed it is centred on the coordinate of the
\* person selected at that moment, or on (36.5, 127.8) when nobody is, at
\* level 7.
C16_CentredOnSelection ==
    [][constructed' > constructed =>
          LET at == IF selectedPerson # NoPerson
                    THEN <<Person(selectedPerson).lat, Person(selectedPerson).lng>>
                    ELSE <<365, 1278>>
          IN  /\ viewport'.kind = "center"
              /\ viewport'.sw = at /\ viewport'.ne = at
              /\ viewport'.level = 7]_vars

\* The container's size has just changed.
ResizeStep == Settled /\ last'.ev = "resize"

\* C17: once the map exists, a size change of the container leads to a
\* relayout call and, when a person is selected, leaves the map centred on
\* that person's coordinate.
C17_ResizeRecentres ==
    [][(ResizeStep /\ mapObj) =>
          /\ last'.kind = "relayout"
          /\ selectedPerson # NoPerson =>
                 /\ viewport'.kind = "center"
                 /\ viewport'.sw = <<Person(selectedPerson).lat, Person(selectedPerson).lng>>
                 /\ viewport'.ne = viewport'.sw]_vars

\* C18: at most one ResizeObserver of MapView is active; a new one is
\* installed only when the cleanup has disconnected the one before; none is
\* active when MapView is not mounted (another view, or the tree gone after
\* a render threw).
C18_OneObserver ==
    [][/\ Len(observers') <= 1
       /\ (observers' # observers /\ observers' # <<>>) =>
              RunCleanup(observers, roCleanup) = <<>>
       /\ (activeView' # "map" \/ crashed') => observers' = <<>>]_vars

\* An observer made for one selection has been replaced by one for another,
\* and a size change has been delivered to it.
C18_Witness ==
    /\ Len(observers) = 1 /\ observers[1] = selectedPerson /\ selectedPerson > 1
    /\ last.ev = "resize" /\ last.kind = "relayout"
    /\ viewport.kind = "center"

\* The least and the greatest of a non-empty set of numbers.
Least(S) == CHOOSE x \in S : \A y \in S : x <= y

Greatest(S) == CHOOSE x \in S : \A y \in S : x >= y

Lats(F) == {Person(F[i]).lat : i \in 1..Len(F)}

Lngs(F) == {Person(F[i]).lng : i \in 1..Len(F)}

\* C19: a reconciliation run with a non-empty list leaves the viewport fitted
\* to the smallest box holding every person's coordinate, with a padding of 50
\* on each side; a run with an empty list leaves no marker and no overlay on
\* the map and the viewport as it was.
C19_FitBoundsUnlessEmpty ==
    [][ReconcileDue =>
          IF MapPeopleProp # <<>>
          THEN /\ viewport'.kind = "bounds"
               /\ viewport'.sw = <<Least(Lats(MapPeopleProp)), Least(Lngs(MapPeopleProp))>>
               /\ viewport'.ne = <<Greatest(Lats(MapPeopleProp)), Greatest(Lngs(MapPeopleProp))>>
               /\ viewport'.pad = BoundsPadding
               /\ Len(mapMarkers') = Len(MapPeopleProp)
          ELSE /\ mapMarkers' = <<>> /\ mapOverlays' = <<>>
               /\ viewport' = viewport]_vars

\* A run with an empty list has just followed runs with several persons: the
\* map is bare and still shows the box the earlier run fitted.
C19_Witness ==
    /\ reconciled /\ MapPeopleProp = <<>> /\ people.t = "array" /\ Len(people.v) > 1
    /\ mapMarkers = <<>> /\ mapOverlays = <<>>
    /\ viewport.kind = "bounds" /\ viewport.sw # viewport.ne /\ viewport.pad = BoundsPadding

\* The ids of the records of the list F.
Ids(F) == {Person(F[i]).id : i \in 1..Len(F)}

\* A click on a marker or on a row has just called the selection callback.
SelectStep == Settled /\ last'.ev = "select"

\* C20: a click on p's marker or row calls the selection callback with p, a
\* person of the current list, and p is then selected; a selected person of
\* the list stays selected and in the list over every step that is no
\* selection click, query change or fetch completion (the repair effect among
\* them), so the selection is still p when the effects have settled; and in
\* settled states every attached marker's listener holds a person of the
\* current list.
C20_ClickSelectsAndStays ==
    [][~crashed =>
       \E F \in {FilteredNow} : \E ids \in {Ids(F)} :
          /\ SelectStep =>
                 /\ selectedPerson' = last'.sel
                 /\ Person(last'.sel).id \in ids
                 /\ FilteredNow' = F
          /\ (/\ selectedPerson # NoPerson
              /\ Person(selectedPerson).id \in ids
              /\ ~SelectStep /\ q' = q /\ fetching' >= fetching) =>
                 /\ selectedPerson' = selectedPerson
                 /\ FilteredNow' = F
          /\ Settled => \A i \in 1..Len(mapMarkers) : Person(mapMarkers[i].p).id \in ids]_vars

\* The effects after a click have settled with the clicked person selected,
\* a person who is not the first of the list, and the markers redrawn for it.
C20_Witness ==
    /\ Settled /\ last.ev = "select" /\ selectedPerson = last.sel
    /\ Len(FilteredNow) > 1 /\ selectedPerson # FilteredNow[1]
    /\ reconciled
    /\ \E i \in 1..Len(mapMarkers) : mapMarkers[i].p = selectedPerson /\ mapMarkers[i].z = zMarkerSelected

\* The value a response body of the given kind and length parses to.
BodyRecords(kind, n) == IF kind \in {"array", "wrapped"} THEN [i \in 1..n |-> i] ELSE <<>>

\* C21: the person list changes only on a step that completes a request
\* without a rejection, and is then the response's list whatever the list
\* before was; a failed request, selecting, typing a query, paging, switching
\* the view and the map's events leave the list, its order and its records
\* as they were.
C21_ListChangesOnlyByFetch ==
    [][/\ people' # people =>
              /\ fetching' < fetching /\ last'.ev = "fetch"
              /\ people'.v = BodyRecords(last'.kind, Len(people'.v))
              /\ last'.kind \in {"array", "wrapped"} => people'.t = "array"
              /\ people'.ref # people.ref
       /\ (fetching' >= fetching \/ last'.ev = "fetchFailed") => people' = people]_vars

\* A second response has replaced a list of several persons by a list of one.
C21_Witness ==
    /\ last.ev = "fetch" /\ last.sel # NoPerson /\ last.kind \in {"array", "wrapped"}
    /\ people.t = "array" /\ Len(people.v) = 1 /\ fetching = 0

\* A navigation button has been clicked and nothing else has happened since
\* but the effects of the render it caused.
ViewClicked == last.ev = "view"

\* C22: the active view is "map" at the start and always "map" or "cctv"; a
\* click on a view button makes that button's view the active one, and a
\* click on the active view's button changes no state at all; over the click
\* and the effects that follow it the person list, the selection, the query
\* and the page keep their values.
C22_ViewSwitchKeepsState ==
    /\ activeView = "map"
    /\ [][/\ activeView' \in {"map", "cctv"}
          /\ (Settled /\ ViewClicked') =>
                 /\ activeView' = last'.kind
                 /\ activeView' = activeView => UNCHANGED <<appVars, reactVars, mapVars>>
          /\ ViewClicked' => UNCHANGED <<people, selectedPerson, q, page>>
          /\ activeView' # activeView => (Settled /\ ViewClicked')]_vars

\* Back on the map view from the camera view, effects settled, with a list,
\* a selection other than the first person, a query and a page above 1.
C22_Witness ==
    /\ ViewClicked /\ last.kind = "map" /\ activeView = "map" /\ Settled /\ mapViewMounted
    /\ Len(people.v) > 1 /\ selectedPerson > 1 /\ q # <<>> /\ page > 1

\* The members of a list.
Members(l) == {l[i] : i \in 1..Len(l)}

\* CCTVPage is mounted before and after the step.
StaysInCctv == activeView = "cctv" /\ activeView' = "cctv"

\* C23: the camera view holds one selection, a camera of its list or none;
\* on every entry into the camera view the selection is the first camera of
\* the list (none for an empty list) and the search is empty; while the view
\* stays, the selection changes only by a click on a displayed row, to that
\* row's camera, and a change of the search query leaves it as it is, be the
\* selected camera among the rows displayed afterwards or not.
C23_CameraSelection ==
    [][/\ selectedCamera' \in Members(cameras) \cup {NoCamera}
       /\ (activeView = "map" /\ activeView' = "cctv") =>
              /\ selectedCamera' = (IF Len(cameras) = 0 THEN NoCamera ELSE cameras[1])
              /\ searchQuery' = <<>>
       /\ (StaysInCctv /\ selectedCamera' # selectedCamera) =>
              /\ last'.ev = "camera"
              /\ selectedCamera' \in Members(FilteredCamerasNow)
              /\ searchQuery' = searchQuery
       /\ (StaysInCctv /\ searchQuery' # searchQuery) =>
              selectedCamera' = selectedCamera]_vars

\* A camera other than the first was clicked and a search has then filtered
\* it out of the rows displayed: it is still the selected camera.
C23_Witness ==
    /\ activeView = "cctv" /\ Settled /\ last.ev = "cameraQuery"
    /\ selectedCamera # NoCamera /\ selectedCamera # cameras[1]
    /\ selectedCamera \notin Members(FilteredCamerasNow)
    /\ FilteredCamerasNow # <<>>

\* C24: a call of the loader is resolved only once the SDK's ready callback
\* has fired, whenever the call was made; so an init() call that sets the
\* inited flag goes on to construct the map.
C24_ResolvedOnlyWhenReady ==
    [][/\ inits'.resolved > inits.resolved => sdk' = "ready"
       /\ (inited' /\ ~inited) => (mapObj' /\ constructed' = constructed + 1)]_vars

\* The marker is drawn as the selected one: highlight stroke, raised z-index.
LooksSelected(m) == m.stroke = HighlightStroke /\ m.z = zMarkerSelected

\* The marker is drawn as a plain one.
LooksPlain(m) == m.stroke # HighlightStroke /\ m.z = zMarkerPlain

\* The markers show the selection sel: the selected look on the markers of
\* sel's id and the plain look on the others; one such marker at most, one if
\* sel is a person of the markers' list, none if nobody is selected.
ShowsSelection(ms, sel) ==
    \E high \in {{i \in 1..Len(ms) : LooksSelected(ms[i])}} :
        /\ \A i \in 1..Len(ms) :
               IF sel # NoPerson /\ Person(ms[i].p).id = Person(sel).id
               THEN i \in high
               ELSE LooksPlain(ms[i])
        /\ Cardinality(high) <= 1
        /\ (sel # NoPerson /\ \E i \in 1..Len(ms) : ms[i].p = sel) => Cardinality(high) = 1
        /\ sel = NoPerson => high = {}

\* C25: the markers a reconciliation run leaves on the map show the selection
\* the run was given, and once the effects have settled after a run they show
\* the current selection: the selected look on a marker if and only if its
\* person's id is the selected id, so on one marker if the selected person is
\* in the list and on none if nobody is selected.
C25_OneMarkerHighlighted ==
    [][/\ ReconcileDue => ShowsSelection(mapMarkers', selectedPerson)
       /\ reconciled' => ShowsSelection(mapMarkers', selectedPerson')]_vars

\* After a run over several persons the one marker with the selected look is
\* that of the selected person, who is not the first of the list.
C25_Witness ==
    /\ reconciled /\ Len(mapMarkers) > 2 /\ selectedPerson # NoPerson
    /\ mapMarkers[1].p # selectedPerson /\ LooksPlain(mapMarkers[1])
    /\ \E i \in 2..Len(mapMarkers) : mapMarkers[i].p = selectedPerson /\ LooksSelected(mapMarkers[i])

\* The positions of the filtered list F that lie on the page pg.
OnPage(F, pg) == {i \in 1..Len(F) : (pg - 1) * pageSize < i /\ i <= pg * pageSize}

\* How many of the positions in I of F hold a person of the status st.
WithStatus(F, I, st) == Cardinality({i \in I : Person(F[i]).status = st})

\* C26: the "missing" and the "found" count of the side panel are the numbers
\* of persons of that status among the records of the current page of the
\* filtered list, at most 5 together, whatever the list, the query and the
\* page are.
C26_CountsOverPage ==
    ~crashed =>
        \E F \in {FilteredNow} : \E I \in {OnPage(F, page)} :
            /\ missingCount(SidePeopleProp) = WithStatus(F, I, "missing")
            /\ foundCount(SidePeopleProp) = WithStatus(F, I, "found")
            /\ missingCount(SidePeopleProp) + foundCount(SidePeopleProp) <= pageSize

\* On the second page of a filtered list the panel's counts are neither those
\* of the filtered list nor those of the first page.
C26_Witness ==
    /\ Settled /\ page = 2 /\ q # <<>>
    /\ missingCount(SidePeopleProp) # missingCount(FilteredNow)
    /\ missingCount(SidePeopleProp) # missingCount(pagePeople(FilteredNow, 1))
    /\ foundCount(SidePeopleProp) # foundCount(FilteredNow)
    /\ missingCount(SidePeopleProp) + foundCount(SidePeopleProp) > 0

\* The positions of the list vs whose vehicle has the status st, or the type t.
OfStatus(vs, st) == {i \in 1..Len(vs) : vs[i].status = st}

OfType(vs, t) == {i \in 1..Len(vs) : vs[i].type = t}

\* The k-th position, in list order, of the set of positions I.
KthOf(I, k) == CHOOSE i \in I : Cardinality({j \in I : j < i}) = k - 1

\* What the panel shows of the list vs under the filter f: as rows, the list
\* itself for "all" and else its vehicles of status f in list order; as
\* counts, those of the whole list.
PanelShows(vs, f) ==
    \E d \in {filteredVehicles(vs, f)} :
        /\ f = "all" => d = vs
        /\ f # "all" =>
               /\ Len(d) = Cardinality(OfStatus(vs, f))
               /\ \A k \in 1..Len(d) : d[k] = vs[KthOf(OfStatus(vs, f), k)]
        /\ \A t \in VehicleTypes : typeCount(vs, t) = Cardinality(OfType(vs, t))
        /\ \A st \in VehicleStatuses : statusCount(vs, st) = Cardinality(OfStatus(vs, st))
        /\ statusCount(vs, "available") + statusCount(vs, "busy")
               + statusCount(vs, "responding") = Len(vs)

\* C27: for every vehicle list and every filter the panel shows the whole
\* list in order under "all" and otherwise the vehicles of the filter's
\* status in list order; the counts by type and by status are those of the
\* whole list, stay the same when the filter changes, and the three status
\* counts add up to the list's length; the filter is "all" at the start and,
\* while the panel stays mounted, changes only by a click on a filter button,
\* to that button's filter.
C27_VehicleFilter ==
    /\ statusFilter = "all" /\ PanelShows(vehicles, statusFilter)
    /\ [][/\ PanelShows(vehicles', statusFilter')
          /\ \A t \in VehicleTypes : typeCount(vehicles', t) = typeCount(vehicles, t)
          /\ \A st \in VehicleStatuses : statusCount(vehicles', st) = statusCount(vehicles, st)
          /\ (activeView = "map" /\ activeView' = "map" /\ statusFilter' # statusFilter) =>
                 (Settled /\ last'.ev = "filter" /\ statusFilter' = last'.kind)
          /\ (Settled /\ last'.ev = "filter") => statusFilter' = last'.kind]_vars

\* Under a filter the panel shows two of three vehicles, the first and the
\* last of the list, the one between them being of another status.
C27_Witness ==
    /\ last.ev = "filter" /\ statusFilter # "all" /\ Len(vehicles) = 3
    /\ vehicles[2].status # statusFilter
    /\ FilteredVehiclesNow = <<vehicles[1], vehicles[3]>>
    /\ vehicles[1] # vehicles[3]

====
